---- MODULE Spec2Model ----
(***************************************************************************)
(* Model of crates/rattler/src/match_spec_constraints.rs: the boolean      *)
(* algebra of MatchSpecConstraints (a DNF of MatchSpecElement groups) that *)
(* implements pubgrub's VersionSet.                                        *)
(*                                                                         *)
(* A Range<T> is modelled by the set of scalars it contains, taken from a  *)
(* finite domain of atoms; structural equality of ranges is set equality.  *)
(* The state is a pair of constraint values held by a caller: each starts  *)
(* as the result of a constructor and every step replaces one of them by   *)
(* the result of complement, intersection or union.                        *)
(***************************************************************************)
EXTENDS Integers, Sequences, FiniteSets

\* ---- bounds ------------------------------------------------------------
NumVersions == 2          \* atoms of the version domain
NumBuilds == 2            \* atoms of the build-number domain
MaxGroups == 4            \* longest group vector a stored value may have

Versions == 1..NumVersions
Builds == 0..(NumBuilds - 1)

\* ---- Range<T> (crate::Range) --------------------------------------------
Range_none == {}
Range_any(D) == D
Range_equal(v) == {v}
Range_intersection(a, b) == a \cap b
Range_negate(D, a) == D \ a
Range_contains(a, v) == v \in a

\* ---- PackageRecord: the two fields that matter for matching -------------
PackageRecords == [version : Versions, build_number : Builds]

\* ---- MatchSpecElement ---------------------------------------------------
MatchSpecElements == [version : SUBSET Versions, build_number : SUBSET Builds]

MatchSpecElement_none == [version |-> Range_none, build_number |-> Range_none]

MatchSpecElement_any ==
  [version |-> Range_any(Versions), build_number |-> Range_any(Builds)]

\* faulty variant: the partially empty result is kept instead of collapsing to none()
MatchSpecElement_intersection_nocollapse(a, b) ==
  [version |-> Range_intersection(a.version, b.version),
   build_number |-> Range_intersection(a.build_number, b.build_number)]

MatchSpecElement_intersection(a, b) ==
  LET version == Range_intersection(a.version, b.version)
      build_number == Range_intersection(a.build_number, b.build_number)
  IN IF version = Range_none \/ build_number = Range_none
       THEN MatchSpecElement_none
       ELSE [version |-> version, build_number |-> build_number]

\* faulty variant: either field matching is enough
MatchSpecElement_contains_or(e, package) ==
  \/ Range_contains(e.version, package.version)
  \/ Range_contains(e.build_number, package.build_number)

MatchSpecElement_contains(e, package) ==
  /\ Range_contains(e.version, package.version)
  /\ Range_contains(e.build_number, package.build_number)

\* ---- the sort key: DefaultHasher over the derived Hash of an element ----
\* The element's content is encoded as an integer (one bit per atom of each
\* range) and scrambled by a multiplication modulo a prime, so the key is a
\* deterministic function of the content that is unrelated to any order on
\* ranges, and distinct elements get distinct keys.
HashPrime == 1009
HashMult == 389

RECURSIVE RangeBits(_)
RangeBits(a) ==
  IF a = {} THEN 0
  ELSE LET m == CHOOSE v \in a : TRUE
       IN 2 ^ m + RangeBits(a \ {m})

HashKey(e) ==
  ((RangeBits(e.version) * (2 ^ (NumBuilds + 1)) + RangeBits(e.build_number) + 1)
     * HashMult) % HashPrime

\* ---- helpers for iterator chains ---------------------------------------
RECURSIVE Reduce(_, _, _)
\* elems.reduce(|a, b| a.intersection(&b)), from accumulator acc over s[i..]
Reduce(acc, s, i) ==
  IF i > Len(s) THEN acc
  ELSE Reduce(MatchSpecElement_intersection(acc, s[i]), s, i + 1)

ReduceIntersection(s) == Reduce(s[1], s, 2)

\* collect(): the vector with every item computed once
Collect(f) == [i \in 1..Len(f) |-> f[i]] \o <<>>

RECURSIVE MultiCartesianProduct(_)
\* itertools multi_cartesian_product: every way of picking one item of each
\* list, the first list varying slowest; empty if some list is empty.
MultiCartesianProduct(lists) ==
  IF Len(lists) = 0 THEN << <<>> >>
  ELSE LET rest == MultiCartesianProduct(Tail(lists))
           r == Len(rest)
           m == Len(lists[1])
       IN Collect([k \in 1..(m * r) |->
                     <<lists[1][((k - 1) \div r) + 1]>> \o rest[((k - 1) % r) + 1]])

\* faulty variant: the vector is left in construction order
SortByCachedKey_unsorted(s) == s

\* Vec::sort_by_cached_key(hash of the element): the key of every item is
\* computed once; the sort is stable, so an item moves to the place that
\* counts the items with a smaller key and the earlier items with the same key
SortByCachedKey(s) ==
  LET n == Len(s)
      keys == Collect([i \in 1..n |-> HashKey(s[i])])
      Before(j, i) == keys[j] < keys[i] \/ (keys[j] = keys[i] /\ j < i)
      place == Collect([i \in 1..n |-> Cardinality({j \in 1..n : Before(j, i)}) + 1])
  IN Collect([p \in 1..n |-> s[CHOOSE i \in 1..n : place[i] = p]])

\* HashSet::into_iter().sorted_by_cached_key(hash): the members of the set in
\* key order
SetToSortedSeq(S) ==
  LET keyed == {<<HashKey(e), e>> : e \in S}
      placed == {<<Cardinality({l \in keyed : l[1] < k[1]}) + 1, k[2]>> : k \in keyed}
  IN Collect([p \in 1..Cardinality(S) |-> (CHOOSE r \in placed : r[1] = p)[2]])

\* the distinct items of a vector (what collecting it into a HashSet keeps)
Items(s) == {s[i] : i \in 1..Len(s)}

\* ---- MatchSpecConstraints ----------------------------------------------
FromElement(elem) == [groups |-> <<elem>>]

\* Option<T>: None, or Some(value)
None == [some |-> FALSE]
Some(value) == [some |-> TRUE, value |-> value]

\* a MatchSpec as far as From<MatchSpec> reads it: an optional version range
\* and an optional exact build number
MatchSpecs ==
  [version : {None} \cup {Some(a) : a \in SUBSET Versions},
   build_number : {None} \cup {Some(b) : b \in Builds}]

\* the MatchSpecs whose version constraint can be met by some version
NonEmptyMatchSpecs ==
  {s \in MatchSpecs : s.version.some => s.version.value # Range_none}

FromMatchSpec(spec) ==
  [groups |-> << [version |-> IF spec.version.some
                                THEN spec.version.value
                                ELSE Range_any(Versions),
                  build_number |-> IF spec.build_number.some
                                     THEN Range_equal(spec.build_number.value)
                                     ELSE Range_any(Builds)] >>]

empty == [groups |-> <<>>]

full == [groups |-> << [version |-> Range_any(Versions),
                        build_number |-> Range_any(Builds)] >>]

singleton(v) ==
  [groups |-> << [version |-> Range_equal(v.version),
                  build_number |-> Range_equal(v.build_number)] >>]

\* faulty variant: the build-number alternative is forgotten
GroupEntries_versiononly(spec) ==
  LET version_complement == Range_negate(Versions, spec.version)
  IN IF version_complement # Range_none
       THEN << [version |-> version_complement,
                build_number |-> Range_any(Builds)] >>
       ELSE <<>>

\* the 0..2 alternatives one group contributes to the complement
GroupEntries(spec) ==
  LET version_complement == Range_negate(Versions, spec.version)
      build_complement == Range_negate(Builds, spec.build_number)
  IN (IF version_complement # Range_none
        THEN << [version |-> version_complement,
                 build_number |-> Range_any(Builds)] >>
        ELSE <<>>)
     \o
     (IF build_complement # Range_none
        THEN << [version |-> Range_any(Versions),
                 build_number |-> build_complement] >>
        ELSE <<>>)

\* faulty variant: the complement of the empty set is taken to be empty
complement_emptycase(self) ==
  IF Len(self.groups) = 0
    THEN [groups |-> <<>>]
    ELSE LET permutations == [i \in 1..Len(self.groups) |-> GroupEntries(self.groups[i])]
             perms == MultiCartesianProduct(permutations)
             reduced == [i \in 1..Len(perms) |-> ReduceIntersection(perms[i])]
         IN IF \E i \in 1..Len(reduced) : reduced[i] = MatchSpecElement_any
              THEN FromElement(MatchSpecElement_any)
              ELSE [groups |-> SetToSortedSeq(Items(reduced) \ {MatchSpecElement_none})]

complement(self) ==
  IF Len(self.groups) = 0
    THEN [groups |-> <<MatchSpecElement_any>>]
    ELSE LET permutations == [i \in 1..Len(self.groups) |-> GroupEntries(self.groups[i])]
             perms == MultiCartesianProduct(permutations)
             reduced == [i \in 1..Len(perms) |-> ReduceIntersection(perms[i])]
         IN IF \E i \in 1..Len(reduced) : reduced[i] = MatchSpecElement_any
              THEN FromElement(MatchSpecElement_any)
              ELSE [groups |-> SetToSortedSeq(Items(reduced) \ {MatchSpecElement_none})]

\* faulty variant: groups equal to none() are not filtered out
intersection_nofilter(self, other) ==
  LET pairs == MultiCartesianProduct(<<self.groups, other.groups>>)
      reduced == [i \in 1..Len(pairs) |-> ReduceIntersection(pairs[i])]
      groups == SelectSeq(reduced, LAMBDA g : TRUE)
  IN IF \E i \in 1..Len(groups) : groups[i] = MatchSpecElement_any
       THEN FromElement(MatchSpecElement_any)
       ELSE [groups |-> SortByCachedKey(groups)]

intersection(self, other) ==
  LET pairs == MultiCartesianProduct(<<self.groups, other.groups>>)
      reduced == [i \in 1..Len(pairs) |-> ReduceIntersection(pairs[i])]
      groups == SelectSeq(reduced, LAMBDA g : g # MatchSpecElement_none)
  IN IF \E i \in 1..Len(groups) : groups[i] = MatchSpecElement_any
       THEN FromElement(MatchSpecElement_any)
       ELSE [groups |-> SortByCachedKey(groups)]

\* VersionSet::union, the trait's provided method:
\* self.complement().intersection(&other.complement()).complement()
union_inner(self, other) == intersection(complement(self), complement(other))

union(self, other) == complement(union_inner(self, other))

contains(self, v) ==
  \E i \in 1..Len(self.groups) : MatchSpecElement_contains(self.groups[i], v)

\* ---- the state machine --------------------------------------------------
\* x and y are two constraint values a caller holds.  Each starts as the
\* result of a constructor; every step replaces one of them by the result of
\* an algebra operation on the values held.
VARIABLES x, y
vars == <<x, y>>

Fits(value) == Len(value.groups) <= MaxGroups

\* what empty(), full(), singleton(v) and From<MatchSpec> can return
Constructed(specs) ==
  {empty, full}
    \cup {singleton(v) : v \in PackageRecords}
    \cup {FromMatchSpec(spec) : spec \in specs}

Init ==
  /\ x \in Constructed(MatchSpecs)
  /\ y \in Constructed(MatchSpecs)

InitNonEmpty ==
  /\ x \in Constructed(NonEmptyMatchSpecs)
  /\ y \in Constructed(NonEmptyMatchSpecs)

ComplementY ==
  LET result == complement(y)
  IN /\ Fits(result)
     /\ y' = result
     /\ UNCHANGED x

ComplementX ==
  LET result == complement(x)
  IN /\ Fits(result)
     /\ x' = result
     /\ UNCHANGED y

Intersection ==
  \E a, b \in {x, y} :
    LET result == intersection(a, b)
    IN /\ Fits(result)
       /\ x' = result
       /\ UNCHANGED y

\* union's last call complements its inner intersection, which costs 2^groups:
\* the step is taken only when that intermediate value fits too
Union ==
  \E a, b \in {x, y} :
    /\ Fits(union_inner(a, b))
    /\ LET result == union(a, b)
       IN /\ Fits(result)
          /\ x' = result
          /\ UNCHANGED y

Next ==
  \/ ComplementY
  \/ ComplementX
  \/ Intersection
  \/ Union

Spec == Init /\ [][Next]_vars

SpecNonEmpty == InitNonEmpty /\ [][Next]_vars

\* ---- properties --------------------------------------------------------
\* the values held in a state, and the third operands tried against them
Held == {x, y}

Operands ==
  Held \cup {complement(singleton(v)) : v \in PackageRecords}

NoDuplicates(s) == \A i, j \in 1..Len(s) : i # j => s[i] # s[j]

\* C1: complementing a held value twice gives back the same group sequence.
C1_DoubleComplement ==
  \A v \in Held : complement(complement(v)) = v

\* C2: intersecting a held value with itself gives back the same group
\* sequence.
C2_IntersectionIdempotent ==
  \A v \in Held : intersection(v, v) = v

\* C3: a held value and its complement intersect, in either order, to the
\* value with zero groups.
C3_ExcludedMiddle ==
  \A v \in Held :
    LET cv == complement(v)
    IN /\ intersection(v, cv) = empty
       /\ intersection(cv, v) = empty

C3_Witness ==
  /\ Len(x.groups) >= 2
  /\ Len(complement(x).groups) >= 2
  /\ \E c \in PackageRecords : contains(x, c)

\* C4: the union of a held value and its complement, in either order, is the
\* single any() group.
C4_Totality ==
  \A v \in Held :
    LET cv == complement(v)
    IN /\ union(v, cv) = full
       /\ union(cv, v) = full

C4_Witness ==
  /\ Len(x.groups) >= 3
  /\ Len(complement(x).groups) >= 1
  /\ x # complement(complement(x))

\* C5: a candidate is in the complement of a held value exactly when it is
\* not in the value.
C5_ContainsComplement ==
  \A v \in Held :
    LET cv == complement(v)
    IN \A c \in PackageRecords : contains(cv, c) <=> ~contains(v, c)

C5_Witness ==
  /\ Len(x.groups) >= 2
  /\ Len(complement(x).groups) >= 2
  /\ \E c, d \in PackageRecords : contains(x, c) /\ contains(complement(x), d)

\* C6: a candidate is in the intersection of two held values exactly when it
\* is in both.
C6_ContainsIntersection ==
  \A a, b \in Held :
    LET ab == intersection(a, b)
    IN \A c \in PackageRecords :
         contains(ab, c) <=> (contains(a, c) /\ contains(b, c))

C6_Witness ==
  /\ Len(x.groups) >= 2
  /\ Len(y.groups) >= 2
  /\ \E c, d \in PackageRecords :
       /\ contains(intersection(x, y), c)
       /\ contains(x, d) /\ ~contains(y, d)

\* C7: intersection gives the same group sequence whichever way its operands
\* are ordered (x with y) or nested (x, y and a third operand).
C7_CommutativeAssociative ==
  LET xy == intersection(x, y)
  IN /\ xy = intersection(y, x)
     /\ \A c \in Operands :
          intersection(xy, c) = intersection(x, intersection(y, c))

C7_Witness ==
  /\ Len(x.groups) >= 2
  /\ Len(y.groups) >= 2
  /\ x # y
  /\ Len(intersection(x, y).groups) >= 3

\* C8: full() is the identity and empty() the absorbing element of
\* intersection, on either side, for every held value.
C8_IdentityAbsorbing ==
  \A v \in Held :
    /\ intersection(v, full) = v
    /\ intersection(full, v) = v
    /\ intersection(v, empty) = empty
    /\ intersection(empty, v) = empty

\* C9: no held value has two structurally equal groups.
C9_NoDuplicateGroups ==
  \A v \in Held : NoDuplicates(v.groups)

\* C10: when every requirement has a non-empty version range, no group of a
\* held value is none() or has an empty version or build-number range.
C10_NoEmptyGroup ==
  \A v \in Held : \A i \in 1..Len(v.groups) :
    /\ v.groups[i] # MatchSpecElement_none
    /\ v.groups[i].version # Range_none
    /\ v.groups[i].build_number # Range_none

\* two held multi-group values with a pair of groups that overlap in one
\* field only, which element intersection collapses to none()
C10_Witness ==
  /\ Len(x.groups) >= 2
  /\ Len(y.groups) >= 2
  /\ \E i \in 1..Len(x.groups) : \E j \in 1..Len(y.groups) :
       /\ MatchSpecElement_intersection(x.groups[i], y.groups[j])
            = MatchSpecElement_none
       /\ Range_intersection(x.groups[i].version, y.groups[j].version)
            # Range_none
====
